---- MODULE Spec2Model ----
(***************************************************************************)
(* A model of the URL scanner client (script.js): scanURL validates the    *)
(* input, submits it through makeRequest, waits, and pollAnalysisResults   *)
(* polls the analysis status with a growing interval until the analysis    *)
(* completes, fails, or the attempt budget is exhausted;                   *)
(* showFormattedResult aggregates the stats into a verdict and             *)
(* percentages.  Every await of the source is a separate step: a run sits  *)
(* at a program point (pc) between two steps and the network / the timers  *)
(* decide when and how it goes on.                                         *)
(*                                                                         *)
(* Each invocation of scanURL is a run with its own locals (url, attempts, *)
(* interval, report, result); the element with id 'result' is shared.      *)
(* Fields that are not in the source (queries, answered, nonterm, anyBad,  *)
(* delays, errors, last, outcome, aggregated, submits, concurrent) are    *)
(* history fields: they record what the run did and never influence it.    *)
(*                                                                         *)
(* The proxy (api/scan-url.js) is one invocation of its handler: it is     *)
(* checked on its own for every request (SpecHandler) and end to end,      *)
(* answering the submission of a scan (SpecEndToEnd).                      *)
(***************************************************************************)
EXTENDS Integers, Sequences, FiniteSets, TLC

VARIABLES runs, resultDiv, started, limit, handler

vars == <<runs, resultDiv, started, limit, handler>>

----------------------------------------------------------------------------
(* Bounds of the model *)

\* longest text typed into the input field
MaxLen == 2
\* largest count of one category in a stats mapping
MaxStat == 1
\* number of scanURL invocations the model has room for
MaxRuns == 2

RunIds == 1..MaxRuns

(* Program constants *)

maxAttempts == 20
initialInterval == 2000
maxInterval == 8000
submitDelay == 3000

----------------------------------------------------------------------------
(* Input text and its validation (scanURL, lines 42-49) *)

Space == " "
Alphabet == {" ", "a", ":"}

RECURSIVE SeqsUpTo(_)
SeqsUpTo(n) ==
    IF n = 0 THEN {<<>>}
    ELSE LET shorter == SeqsUpTo(n - 1)
         IN  shorter \cup {Append(s, ch) : s \in {t \in shorter : Len(t) = n - 1}, ch \in Alphabet}

Inputs == SeqsUpTo(MaxLen)

RECURSIVE TrimStart(_)
TrimStart(s) ==
    IF s # <<>> /\ Head(s) = Space THEN TrimStart(Tail(s)) ELSE s

RECURSIVE TrimEnd(_)
TrimEnd(s) ==
    IF s # <<>> /\ s[Len(s)] = Space THEN TrimEnd(SubSeq(s, 1, Len(s) - 1)) ELSE s

\* String.prototype.trim
trim(s) == TrimEnd(TrimStart(s))

\* new URL(url) without a base: the text must start with a scheme (a letter,
\* then letters) followed by ":"; what follows the colon of a non-special
\* scheme is an opaque path and is accepted as it is.
ParsesAsURL(s) ==
    \E i \in 2..Len(s) : s[i] = ":" /\ \A j \in 1..(i - 1) : s[j] = "a"

ValidateNoFormatCheck(url) ==
    IF url = <<>> THEN "empty" ELSE "ok"

\* the two early returns of scanURL
Validate(url) ==
    IF url = <<>> THEN "empty"
    ELSE IF ~ParsesAsURL(url) THEN "invalid"
    ELSE "ok"

----------------------------------------------------------------------------
(* Responses of the network *)

\* the Response object fetch resolves with; given = FALSE before there is one
NoResponse == [given |-> FALSE, rejected |-> FALSE, ok |-> FALSE, statusText |-> ""]
Responses ==
    {[given |-> TRUE, rejected |-> TRUE, ok |-> FALSE, statusText |-> ""]}
    \cup {[given |-> TRUE, rejected |-> FALSE, ok |-> TRUE, statusText |-> "OK"]}
    \cup {[given |-> TRUE, rejected |-> FALSE, ok |-> FALSE, statusText |-> t] : t \in {"", "Bad Request"}}

Categories == {"malicious", "suspicious", "harmless", "undetected", "timeout"}
StatsSet == [Categories -> 0..MaxStat]
ZeroStats == [k \in Categories |-> 0]

\* The body of a status response.  json: the text parses as JSON; isNull: it
\* is the JSON value null; hasData / hasAttributes / hasStatus / hasStats:
\* the field data, data.attributes, data.attributes.status / .stats exists.
MkBody(json, isNull, hasData, hasAttributes, hasStatus, status, hasStats, stats) ==
    [json |-> json, isNull |-> isNull, hasData |-> hasData,
     hasAttributes |-> hasAttributes, hasStatus |-> hasStatus,
     status |-> status, hasStats |-> hasStats, stats |-> stats]

NoBody == MkBody(FALSE, FALSE, FALSE, FALSE, FALSE, "", FALSE, ZeroStats)
NullBody == MkBody(TRUE, TRUE, FALSE, FALSE, FALSE, "", FALSE, ZeroStats)
StatusBody(s) == MkBody(TRUE, FALSE, TRUE, TRUE, TRUE, s, FALSE, ZeroStats)

NonTerminalStatuses == {"queued", "in-progress"}

StatusBodies ==
    {NoBody, NullBody}
    \cup {MkBody(TRUE, FALSE, FALSE, FALSE, FALSE, "", FALSE, ZeroStats)}
    \cup {MkBody(TRUE, FALSE, TRUE, FALSE, FALSE, "", FALSE, ZeroStats)}
    \cup {MkBody(TRUE, FALSE, TRUE, TRUE, FALSE, "", FALSE, ZeroStats)}
    \cup {StatusBody(s) : s \in {"", "failed", "completed"} \cup NonTerminalStatuses}
    \cup {MkBody(TRUE, FALSE, TRUE, TRUE, TRUE, "completed", TRUE, st) : st \in StatsSet}

\* The body of a submission response: error is "absent", a "string" or an
\* "object"; message is error.message; id is data.id.
SubmitBodies ==
    [json : {TRUE}, isNull : {FALSE}, error : {"absent", "string"},
     message : {"absent"}, hasData : {FALSE}, id : {"absent"}]
    \cup [json : {TRUE}, isNull : {FALSE}, error : {"object"},
          message : {"absent", "", "provider message"}, hasData : {FALSE}, id : {"absent"}]
    \cup [json : {TRUE}, isNull : {FALSE}, error : {"absent"},
          message : {"absent"}, hasData : {TRUE}, id : {"absent", "", "analysis-id"}]
    \cup [json : {TRUE}, isNull : {TRUE}, error : {"absent"},
          message : {"absent"}, hasData : {FALSE}, id : {"absent"}]
    \cup [json : {FALSE}, isNull : {FALSE}, error : {"absent"},
          message : {"absent"}, hasData : {FALSE}, id : {"absent"}]

----------------------------------------------------------------------------
(* The pure parts of pollAnalysisResults and showFormattedResult *)

Min(a, b) == IF a <= b THEN a ELSE b

\* result.data?.attributes?.status: def = FALSE stands for undefined
StatusOf(body) ==
    IF body.hasData /\ body.hasAttributes /\ body.hasStatus
    THEN [def |-> TRUE, val |-> body.status]
    ELSE [def |-> FALSE, val |-> ""]

FalsyOnlyUndefined(status) == ~status.def

\* !status
Falsy(status) == ~status.def \/ status.val = ""

IsCompletedTypo(status) == status.val = "complete"

\* status === "completed"
IsCompleted(status) == status.val = "completed"

IsFailedTypo(status) == status.val = "fail"

\* status === "failed"
IsFailed(status) == status.val = "failed"

\* the loop condition, attempts < maxAttempts
LoopCond(attempts) == attempts < maxAttempts

IncrementForgotten(attempts) == attempts

\* ++attempts
Increment(attempts) == attempts + 1

BudgetExhaustedOffByOne(attempts) == attempts > maxAttempts

\* ++attempts >= maxAttempts, on the incremented value
BudgetExhausted(attempts) == attempts >= maxAttempts

NextIntervalUncapped(interval) == (interval * 3) \div 2

NextIntervalDoubling(interval) == Min(interval * 2, maxInterval)

\* Math.min(interval * 1.5, 8000); every interval the loop reaches is even,
\* so interval * 1.5 is the integer (interval * 3) \div 2
NextInterval(interval) == Min((interval * 3) \div 2, maxInterval)

\* ((maxAttempts - attempts) * interval / 1000).toFixed(0)
Remaining(attempts, interval) ==
    ((maxAttempts - attempts) * interval + 500) \div 1000

RECURSIVE SumOver(_, _)
SumOver(stats, keys) ==
    IF keys = {} THEN 0
    ELSE LET k == CHOOSE x \in keys : TRUE
         IN  stats[k] + SumOver(stats, keys \ {k})

TotalOfShownOnly(stats) ==
    SumOver(stats, {"malicious", "suspicious", "harmless", "undetected"})

\* Object.values(stats).reduce((sum, val) => sum + val, 0)
Total(stats) == SumOver(stats, DOMAIN stats)

NoTotalNegativeOnly(total) == total < 0

\* !total
NoTotal(total) == total = 0

NaN == -1
Infinity == -2

\* ((val / total) * 100).toFixed(1), in tenths of a percent, rounded half
\* up; 0 / 0 is NaN and val / 0 is Infinity
getPercent(val, total) ==
    IF total = 0 THEN (IF val = 0 THEN NaN ELSE Infinity)
    ELSE (val * 2000 + total) \div (2 * total)

Shown == {"malicious", "suspicious", "harmless", "undetected"}

percents(stats) == [k \in Shown |-> getPercent(stats[k], Total(stats))]

VerdictSuspiciousFirst(stats) ==
    IF stats["suspicious"] > 0 THEN "Suspicious"
    ELSE IF stats["malicious"] > 0 THEN "Malicious"
    ELSE "Safe"

\* stats.malicious > 0 ? "Malicious" : stats.suspicious > 0 ? "Suspicious" : "Safe"
Verdict(stats) ==
    IF stats["malicious"] > 0 THEN "Malicious"
    ELSE IF stats["suspicious"] > 0 THEN "Suspicious"
    ELSE "Safe"

----------------------------------------------------------------------------
(* Messages.  A displayed message is the sequence of the parts of its      *)
(* template: showError(`Error: ${error.message}`) displays                 *)
(* <<"Error: ", message>>, showError("...") displays <<"...">>.            *)

MsgEnterURL == "Please enter a URL!"
MsgValidURL == "Please enter a valid URL (e.g., https://example.com)"
MsgSubmitting == "Submitting URL for scanning..."
MsgGetting == "Getting scan results..."
MsgAnalyzing == "Analyzing... (s remaining)"
MsgNoId == "Failed to get analysis ID"
MsgRequestFailed == "Request failed!"
MsgInvalidAnalysis == "Invalid analysis response!"
MsgFailed == "Analysis failed!"
MsgTimeout == "Analysis timeout - please try again!"
MsgInvalidFormat == "Invalid response format!"
MsgNoResults == "No analysis results available!"
\* messages of the errors the runtime raises: a rejected fetch, a body that
\* is not JSON, a property read on null
MsgFetchRejected == "<TypeError: fetch failed>"
MsgNotJSON == "<SyntaxError: not JSON>"
MsgNullRead == "<TypeError: cannot read properties of null>"

Thrown(message) == <<"Error: ", message>>
NoOutcome == <<>>
ReportShown == <<"Scan Report">>

----------------------------------------------------------------------------
(* The shared result element and the runs *)

NoPercents == [k \in Shown |-> 0]

\* getElement('result') before any update; run is the run that wrote the
\* content (0: none)
EmptyDiv ==
    [run |-> 0, kind |-> "empty", message |-> <<>>, remaining |-> 0,
     verdict |-> "", percents |-> NoPercents, stats |-> ZeroStats, animate |-> FALSE]

NoSubmitResult ==
    [json |-> FALSE, isNull |-> FALSE, error |-> "absent", message |-> "absent",
     hasData |-> FALSE, id |-> "absent"]

IdleRun ==
    [pc |-> "idle", input |-> <<>>, url |-> <<>>,
     response |-> NoResponse, submitResult |-> NoSubmitResult,
     attempts |-> 0, interval |-> 0, report |-> NoResponse, result |-> NoBody,
     timer |-> FALSE,
     submits |-> 0, queries |-> 0, answered |-> 0, nonterm |-> 0, anyBad |-> FALSE,
     delays |-> <<>>, errors |-> 0, last |-> "none", outcome |-> NoOutcome,
     aggregated |-> 0, uncaught |-> 0, concurrent |-> FALSE]

\* a step works on the pair of the run's own state and the shared element
Ctx(r) == [run |-> runs[r], div |-> resultDiv, id |-> r]

Commit(r, c) ==
    /\ runs' = [runs EXCEPT ![r] = c.run]
    /\ resultDiv' = c.div

\* showLoading(message) -> updateResult
showLoading(c, message, remaining) ==
    [c EXCEPT !.run.last = "loading",
              !.div = [EmptyDiv EXCEPT !.run = c.id, !.kind = "loading",
                                       !.message = <<message>>, !.remaining = remaining]]

\* showError(message) -> updateResult
showError(c, message) ==
    [c EXCEPT !.run.last = "error",
              !.run.errors = @ + 1,
              !.run.outcome = message,
              !.div = [EmptyDiv EXCEPT !.run = c.id, !.kind = "error", !.message = message]]

CatchAndRethrow(c, message) ==
    [showError(showError(c, Thrown(message)), Thrown(message)) EXCEPT !.run.pc = "done"]

\* an error thrown inside scanURL's or the loop's try block: the catch
\* clause shows it and the function ends
Catch(c, message) ==
    [showError(c, Thrown(message)) EXCEPT !.run.pc = "done"]

\* showFormattedResult(data), and the break that follows it
showFormattedResult(c, data) ==
    LET c1 == [c EXCEPT !.run.aggregated = @ + 1]
        stats == data.stats
        total == Total(stats)
    IN  IF ~(data.hasData /\ data.hasAttributes /\ data.hasStats)
        THEN [showError(c1, <<MsgInvalidFormat>>) EXCEPT !.run.pc = "done"]
        ELSE IF NoTotal(total)
        THEN [showError(c1, <<MsgNoResults>>) EXCEPT !.run.pc = "done"]
        ELSE [c1 EXCEPT !.run.last = "report",
                        !.run.outcome = ReportShown,
                        !.run.pc = "animate",
                        !.div = [EmptyDiv EXCEPT !.run = c.id, !.kind = "report",
                                                 !.message = ReportShown,
                                                 !.verdict = Verdict(stats),
                                                 !.percents = percents(stats),
                                                 !.stats = stats]]

\* the head of the while loop up to the await of fetch: the loop condition,
\* showLoading, and the status query
LoopHead(c) ==
    IF LoopCond(c.run.attempts)
    THEN LET c1 == showLoading(c, MsgAnalyzing, Remaining(c.run.attempts, c.run.interval))
         IN  [c1 EXCEPT !.run.pc = "pollFetch",
                        !.run.report = NoResponse,
                        !.run.result = NoBody,
                        !.run.queries = @ + 1]
    ELSE [c EXCEPT !.run.pc = "done"]

AwaitDelayMissing(c) ==
    LoopHead([c EXCEPT !.run.timer = TRUE, !.run.delays = Append(@, c.run.interval)])

\* await new Promise(resolve => setTimeout(resolve, interval))
AwaitDelay(c) ==
    [c EXCEPT !.run.pc = "pollSleep",
              !.run.timer = TRUE,
              !.run.delays = Append(@, c.run.interval)]

\* the body of the loop after `const result = await report.json()`
LoopBody(c, result) ==
    LET status == StatusOf(result)
        c1 == [c EXCEPT !.run.result = result]
    IN  IF result.isNull THEN Catch(c1, MsgNullRead)
        ELSE IF Falsy(status) THEN Catch(c1, MsgInvalidAnalysis)
        ELSE IF IsCompleted(status) THEN showFormattedResult(c1, result)
        ELSE IF IsFailed(status) THEN Catch(c1, MsgFailed)
        ELSE LET c2 == [c1 EXCEPT !.run.attempts = Increment(@)]
             IN  IF BudgetExhausted(c2.run.attempts) THEN Catch(c2, MsgTimeout)
                 ELSE AwaitDelay([c2 EXCEPT !.run.interval = NextInterval(@)])

NoAnalysisIdOnlyData(submitResult) == ~submitResult.hasData

\* !submitResult.data?.id
NoAnalysisId(submitResult) ==
    ~submitResult.hasData \/ submitResult.id \in {"absent", ""}

ErrorMessageOfNullish(error) ==
    IF error.error = "object" /\ error.message # "absent"
    THEN error.message
    ELSE MsgRequestFailed

\* error.error?.message || 'Request failed!' for the body of a non-2xx
\* response that parsed as JSON and is not null
ErrorMessageOf(error) ==
    IF error.error = "object" /\ error.message \notin {"absent", ""}
    THEN error.message
    ELSE MsgRequestFailed

\* the same for the substitute { error: { message: response.statusText } }
ErrorMessageOfStatusText(statusText) ==
    IF statusText # "" THEN statusText ELSE MsgRequestFailed

----------------------------------------------------------------------------
(* The initial state and the steps of a scan *)

\* the handler of the proxy before it is invoked
IdleHandler ==
    [pc |-> "idle", method |-> "", body |-> "absent", url |-> <<>>,
     vtRes |-> NoResponse, sent |-> 0, status |-> 0, out |-> NoSubmitResult,
     errorText |-> "", outbound |-> 0, thrown |-> 0]

InitWith(n) ==
    /\ runs = [r \in RunIds |-> IdleRun]
    /\ resultDiv = EmptyDiv
    /\ started = 0
    /\ limit = n
    /\ handler = IdleHandler

\* one scan
Init == InitWith(1)

\* another scan is between its start and its end
InFlight(x) == x.pc \notin {"idle", "animate", "done"}

\* scanURL() up to its first await, for the text `input` in the field: the
\* validation, showLoading and the submission request issued by makeRequest
ScanURLStep(r, input) ==
    /\ started < limit
    /\ r = started + 1
    /\ runs[r].pc = "idle"
    /\ started' = r
    /\ UNCHANGED limit
    /\ LET url == trim(input)
           c == [Ctx(r) EXCEPT !.run.input = input, !.run.url = url,
                               !.run.concurrent = \E q \in RunIds : InFlight(runs[q])]
           valid == Validate(url)
       IN  IF valid = "empty"
           THEN Commit(r, [showError(c, <<MsgEnterURL>>) EXCEPT !.run.pc = "done"])
           ELSE IF valid = "invalid"
           THEN Commit(r, [showError(c, <<MsgValidURL>>) EXCEPT !.run.pc = "done"])
           ELSE Commit(r, [showLoading(c, MsgSubmitting, 0) EXCEPT
                               !.run.pc = "submitFetch", !.run.submits = @ + 1])

ScanURL(r) ==
    /\ \E input \in Inputs : ScanURLStep(r, input)
    /\ UNCHANGED handler

\* makeRequest: the fetch of the submission resolves with `response` or
\* rejects.  (The URL literal of line 24 still carries the angle brackets of
\* its template, so a browser rejects this fetch; the model keeps every
\* outcome of a fetch.)
SubmitFetchStep(r, response) ==
    /\ runs[r].pc = "submitFetch"
    /\ UNCHANGED <<started, limit, handler>>
    /\ LET c == [Ctx(r) EXCEPT !.run.response = response]
       IN  IF response.rejected THEN Commit(r, Catch(c, MsgFetchRejected))
           ELSE IF ~response.ok THEN Commit(r, [c EXCEPT !.run.pc = "submitErrJson"])
           ELSE Commit(r, [c EXCEPT !.run.pc = "submitJson"])

SubmitFetchResolve(r) == \E response \in Responses : SubmitFetchStep(r, response)

\* makeRequest, !response.ok: `error = await response.json()` resolves with
\* `error` or rejects, and the error is thrown to scanURL's catch
SubmitErrJsonStep(r, error) ==
    /\ runs[r].pc = "submitErrJson"
    /\ UNCHANGED <<started, limit, handler>>
    /\ LET c == [Ctx(r) EXCEPT !.run.submitResult = error]
       IN  IF ~error.json
           THEN Commit(r, Catch(c, ErrorMessageOfStatusText(c.run.response.statusText)))
           ELSE IF error.isNull THEN Commit(r, Catch(c, MsgNullRead))
           ELSE Commit(r, Catch(c, ErrorMessageOf(error)))

SubmitErrJsonResolve(r) == \E error \in SubmitBodies : SubmitErrJsonStep(r, error)

\* makeRequest, response.ok: `return response.json()` resolves with
\* `submitResult` or rejects; scanURL checks data.id and starts the 3000 ms
\* delay
SubmitJsonStep(r, submitResult) ==
    /\ runs[r].pc = "submitJson"
    /\ UNCHANGED <<started, limit, handler>>
    /\ LET c == [Ctx(r) EXCEPT !.run.submitResult = submitResult]
       IN  IF ~submitResult.json THEN Commit(r, Catch(c, MsgNotJSON))
           ELSE IF submitResult.isNull THEN Commit(r, Catch(c, MsgNullRead))
           ELSE IF NoAnalysisId(submitResult) THEN Commit(r, Catch(c, MsgNoId))
           ELSE Commit(r, [c EXCEPT !.run.pc = "submitDelay", !.run.timer = TRUE])

SubmitJsonResolve(r) == \E submitResult \in SubmitBodies : SubmitJsonStep(r, submitResult)

\* the 3000 ms timer fires: showLoading, then pollAnalysisResults up to its
\* first await
SubmitDelayFires(r) ==
    /\ runs[r].pc = "submitDelay"
    /\ UNCHANGED <<started, limit, handler>>
    /\ LET c == showLoading([Ctx(r) EXCEPT !.run.timer = FALSE], MsgGetting, 0)
       IN  Commit(r, LoopHead([c EXCEPT !.run.attempts = 0,
                                        !.run.interval = initialInterval]))

\* the fetch of a status query resolves with `report` or rejects
PollFetchStep(r, report) ==
    /\ runs[r].pc = "pollFetch"
    /\ UNCHANGED <<started, limit, handler>>
    /\ LET c == [Ctx(r) EXCEPT !.run.report = report,
                               !.run.anyBad = @ \/ report.rejected \/ ~report.ok]
       IN  IF report.rejected
           THEN Commit(r, Catch([c EXCEPT !.run.answered = @ + 1], MsgFetchRejected))
           ELSE Commit(r, [c EXCEPT !.run.pc = "pollJson"])

PollFetchResolve(r) == \E report \in Responses : PollFetchStep(r, report)

\* the status of a body, read off the body itself: "none" when the field
\* data.attributes.status is missing or the body is no JSON object
RawStatus(body) ==
    IF body.json /\ ~body.isNull /\ body.hasData /\ body.hasAttributes /\ body.hasStatus
    THEN body.status
    ELSE "none"

\* `await report.json()` resolves with `result` or rejects and the loop body
\* runs up to the next await or to the end of the function
PollJsonStep(r, result) ==
    /\ runs[r].pc = "pollJson"
    /\ UNCHANGED <<started, limit, handler>>
    /\ LET c == [Ctx(r) EXCEPT
                     !.run.answered = @ + 1,
                     !.run.nonterm = IF RawStatus(result) \in NonTerminalStatuses
                                     THEN @ + 1 ELSE @]
       IN  IF ~result.json THEN Commit(r, Catch(c, MsgNotJSON))
           ELSE Commit(r, LoopBody(c, result))

PollJsonResolve(r) == \E result \in StatusBodies : PollJsonStep(r, result)

\* the timer of the delay between two status queries fires and the loop
\* goes round
PollTimerFires(r) ==
    /\ runs[r].pc = "pollSleep"
    /\ UNCHANGED <<started, limit, handler>>
    /\ Commit(r, LoopHead([Ctx(r) EXCEPT !.run.timer = FALSE]))

\* the 1000 ms timer of showFormattedResult fires: the progress bar of the
\* content now displayed gets the class 'animate'; querySelector yields null
\* when the content is no report and the callback throws
AnimateFires(r) ==
    /\ runs[r].pc = "animate"
    /\ UNCHANGED <<started, limit, handler>>
    /\ IF resultDiv.kind = "report"
       THEN /\ resultDiv' = [resultDiv EXCEPT !.animate = TRUE]
            /\ runs' = [runs EXCEPT ![r].pc = "done"]
       ELSE /\ resultDiv' = resultDiv
            /\ runs' = [runs EXCEPT ![r].pc = "done", ![r].uncaught = @ + 1]

Next ==
    \E r \in RunIds :
        \/ ScanURL(r)
        \/ SubmitFetchResolve(r)
        \/ SubmitErrJsonResolve(r)
        \/ SubmitJsonResolve(r)
        \/ SubmitDelayFires(r)
        \/ PollFetchResolve(r)
        \/ PollJsonResolve(r)
        \/ PollTimerFires(r)
        \/ AnimateFires(r)

Spec == Init /\ [][Next]_vars

----------------------------------------------------------------------------
(* Properties of the polling loop *)

\* C1: a polling run whose status queries all succeed and all return a
\* non-terminal status ends with the timeout error after exactly
\* maxAttempts (20) status queries: no run ever issues a 21st query, the
\* 20th non-terminal answer ends the run with the timeout error, and a
\* finished run that got only successful non-terminal answers has issued
\* exactly 20 queries.
C1_TimeoutAfterTwentyQueries ==
    \A r \in RunIds :
        LET x == runs[r]
        IN  /\ x.queries <= maxAttempts
            /\ x.nonterm = maxAttempts =>
                   /\ x.pc = "done"
                   /\ x.outcome = Thrown(MsgTimeout)
            /\ (x.pc = "done" /\ x.answered > 0 /\ x.nonterm = x.answered /\ ~x.anyBad) =>
                   /\ x.queries = maxAttempts
                   /\ x.answered = maxAttempts
                   /\ x.outcome = Thrown(MsgTimeout)
                   /\ x.last = "error"
            /\ x.outcome = Thrown(MsgTimeout) => x.queries = maxAttempts

C1_Witness ==
    \E r \in RunIds :
        /\ runs[r].pc = "done"
        /\ runs[r].nonterm = maxAttempts
        /\ ~runs[r].anyBad
        /\ runs[r].queries = maxAttempts
        /\ resultDiv.kind = "error"
        /\ resultDiv.message = Thrown(MsgTimeout)

\* C2: when the k-th status answer is the first with status 'failed' (the
\* k-1 answers before it were non-terminal), the run has issued exactly k
\* queries, ends at once with the error 'Analysis failed!', never with a
\* report or a timeout, and changes no more afterwards.
C2_FailedOnAttemptK ==
    /\ [](\A r \in RunIds :
            LET x == runs[r]
            IN  (RawStatus(x.result) = "failed" /\ x.nonterm = x.answered - 1) =>
                    /\ x.queries = x.answered
                    /\ x.queries \in 1..maxAttempts
                    /\ x.pc = "done"
                    /\ x.outcome = Thrown(MsgFailed)
                    /\ x.last = "error"
                    /\ x.errors = 1
                    /\ x.aggregated = 0)
    /\ [][\A r \in RunIds :
            RawStatus(runs[r].result) = "failed" => runs'[r] = runs[r]]_vars

C2_Witness ==
    \E r \in RunIds :
        /\ RawStatus(runs[r].result) = "failed"
        /\ runs[r].answered = maxAttempts
        /\ runs[r].nonterm = maxAttempts - 1
        /\ runs[r].outcome = Thrown(MsgFailed)

OriginalDelay(i) ==
    CASE i = 1 -> 2000
      [] i = 2 -> 3000
      [] i = 3 -> 4500
      [] i = 4 -> 6750
      [] OTHER -> 8000

AmendedDelay(i) ==
    CASE i = 1 -> 3000
      [] i = 2 -> 4500
      [] i = 3 -> 6750
      [] OTHER -> 8000

\* C3 as stated: the delays between consecutive status queries are, in
\* order, 2000, 3000, 4500, 6750, 8000, 8000, ... ms.
C3_DelaysStartAt2000 ==
    \A r \in RunIds :
        \A i \in 1..Len(runs[r].delays) : runs[r].delays[i] = OriginalDelay(i)

\* C3, amended: the delays between consecutive status queries are, in
\* order, 3000, 4500, 6750, 8000, 8000, ... ms (the interval starts at 2000
\* and is multiplied by 1.5 before the first delay); the i-th delay follows
\* the i-th query, and there are at most 19 of them.
C3_DelaysStartAt3000 ==
    \A r \in RunIds :
        /\ Len(runs[r].delays) <= maxAttempts - 1
        /\ \A i \in 1..Len(runs[r].delays) : runs[r].delays[i] = AmendedDelay(i)
        /\ runs[r].pc = "pollSleep" =>
               /\ Len(runs[r].delays) = runs[r].queries
               /\ runs[r].interval = AmendedDelay(runs[r].queries)

C3_Witness ==
    \E r \in RunIds :
        /\ Len(runs[r].delays) = maxAttempts - 1
        /\ runs[r].delays[1] = 3000
        /\ runs[r].delays[maxAttempts - 1] = maxInterval

\* a text of spaces only
Blank(s) == \A i \in 1..Len(s) : s[i] = Space

\* the text between the first and the last character that is no space
Core(s) ==
    LET idx == {i \in 1..Len(s) : s[i] # Space}
        lo == CHOOSE i \in idx : \A j \in idx : i <= j
        hi == CHOOSE i \in idx : \A j \in idx : j <= i
    IN  IF idx = {} THEN <<>> ELSE SubSeq(s, lo, hi)

\* C4: a scan of an input that is empty after trimming, or that does not
\* parse as a URL, ends with an input-validation error and issues no
\* network request: no submission and no status query.
C4_InvalidInputNoRequest ==
    \A r \in RunIds :
        LET x == runs[r]
        IN  (x.pc # "idle" /\ (Blank(x.input) \/ ~ParsesAsURL(Core(x.input)))) =>
                /\ x.pc = "done"
                /\ x.submits = 0
                /\ x.queries = 0
                /\ x.errors = 1
                /\ x.last = "error"
                /\ x.outcome = IF Blank(x.input) THEN <<MsgEnterURL>> ELSE <<MsgValidURL>>

C4_Witness ==
    \E r \in RunIds :
        /\ runs[r].pc = "done"
        /\ ~Blank(runs[r].input)
        /\ runs[r].input # Core(runs[r].input)
        /\ ~ParsesAsURL(Core(runs[r].input))
        /\ resultDiv.kind = "error"
        /\ resultDiv.message = <<MsgValidURL>>
        /\ runs[r].submits = 0

\* C5: within a run at most one status query is outstanding at any time,
\* no query is outstanding while the delay's timer is pending, and a query
\* is issued only when every earlier query has been answered and the delay
\* that follows each of them has been started and has elapsed.
C5_QueriesSequential ==
    /\ [](\A r \in RunIds :
            /\ runs[r].queries - runs[r].answered \in {0, 1}
            /\ runs[r].timer => runs[r].queries = runs[r].answered)
    /\ [][\A r \in RunIds :
            runs'[r].queries # runs[r].queries =>
                /\ runs'[r].queries = runs[r].queries + 1
                /\ runs[r].answered = runs[r].queries
                /\ ~runs'[r].timer
                /\ Len(runs[r].delays) = runs[r].queries]_vars

C5_Witness ==
    \E r \in RunIds :
        /\ runs[r].pc = "pollFetch"
        /\ runs[r].queries = maxAttempts
        /\ runs[r].answered = maxAttempts - 1
        /\ Len(runs[r].delays) = maxAttempts - 1

----------------------------------------------------------------------------
(* Properties of the aggregation and of the answers that end the loop *)

Positive(stats) == \E k \in DOMAIN stats : stats[k] > 0

\* C6: for every stats mapping with a positive total a report is rendered
\* and its verdict is Malicious when malicious > 0, otherwise Suspicious
\* when suspicious > 0, otherwise Safe; replacing the harmless and the
\* undetected count by any other counts (total still positive) gives the
\* same verdict.
C6_VerdictPriority ==
    /\ \A r \in RunIds :
           LET x == runs[r]
           IN  (RawStatus(x.result) = "completed" /\ x.result.hasStats
                    /\ Positive(x.result.stats)) =>
                   /\ x.outcome = ReportShown
                   /\ resultDiv.run = r =>
                          (resultDiv.kind = "report" /\ resultDiv.stats = x.result.stats)
    /\ resultDiv.kind = "report" =>
           LET st == resultDiv.stats
               v == resultDiv.verdict
           IN  /\ Positive(st)
               /\ st["malicious"] > 0 => v = "Malicious"
               /\ (st["malicious"] = 0 /\ st["suspicious"] > 0) => v = "Suspicious"
               /\ (st["malicious"] = 0 /\ st["suspicious"] = 0) => v = "Safe"
               /\ \A h, u \in 0..MaxStat :
                      LET st2 == [st EXCEPT !["harmless"] = h, !["undetected"] = u]
                      IN  Positive(st2) => Verdict(st2) = v

C6_Witness ==
    /\ resultDiv.kind = "report"
    /\ resultDiv.stats["malicious"] > 0
    /\ resultDiv.stats["suspicious"] > 0
    /\ resultDiv.stats["harmless"] > 0
    /\ resultDiv.verdict = "Malicious"

\* C7: when a completed analysis carries stats whose values sum to 0, the
\* aggregation ends with the error 'No analysis results available!': the
\* run shows exactly that one error, and no verdict and no percentages are
\* rendered.
C7_ZeroTotalIsError ==
    \A r \in RunIds :
        LET x == runs[r]
        IN  (RawStatus(x.result) = "completed" /\ x.result.hasStats
                 /\ ~Positive(x.result.stats)) =>
                /\ x.pc = "done"
                /\ x.aggregated = 1
                /\ x.outcome = <<MsgNoResults>>
                /\ x.last = "error"
                /\ x.errors = 1
                /\ resultDiv.run = r =>
                       /\ resultDiv.kind = "error"
                       /\ resultDiv.message = <<MsgNoResults>>
                       /\ resultDiv.verdict = ""
                       /\ resultDiv.percents = NoPercents

C7_Witness ==
    \E r \in RunIds :
        /\ RawStatus(runs[r].result) = "completed"
        /\ runs[r].result.hasStats
        /\ runs[r].result.stats = ZeroStats
        /\ runs[r].aggregated = 1
        /\ resultDiv.kind = "error"
        /\ resultDiv.message = <<MsgNoResults>>

\* the latest status query was rejected or answered with a non-2xx status
BadAnswer(x) == x.report.given /\ (x.report.rejected \/ ~x.report.ok)

\* C8: once a status query was rejected by the network or answered with a
\* non-2xx response and its body has been read (whatever it contains), the
\* run has ended with an error: no delay is pending and no report is shown.
C8_BadAnswerEndsRun ==
    \A r \in RunIds :
        LET x == runs[r]
        IN  (BadAnswer(x) /\ x.pc # "pollJson") =>
                /\ x.pc = "done"
                /\ x.last = "error"
                /\ x.errors = 1
                /\ ~x.timer

C10_CompletedEndsLoop ==
    /\ [](\A r \in RunIds :
            LET x == runs[r]
            IN  (RawStatus(x.result) = "completed" /\ x.nonterm = x.answered - 1) =>
                    /\ x.queries = x.answered
                    /\ x.queries \in 1..maxAttempts
                    /\ x.aggregated = 1
                    /\ x.pc \in {"animate", "done"}
                    /\ ~x.timer
                    /\ Len(x.delays) = x.answered - 1
                    /\ x.outcome # Thrown(MsgTimeout)
                    /\ (x.result.hasStats /\ Positive(x.result.stats)) =>
                           (x.outcome = ReportShown /\ x.last = "report" /\ x.errors = 0))
    /\ [][\A r \in RunIds :
            RawStatus(runs[r].result) = "completed" =>
                /\ runs'[r].queries = runs[r].queries
                /\ runs'[r].delays = runs[r].delays
                /\ runs'[r].aggregated = runs[r].aggregated
                /\ runs'[r].outcome = runs[r].outcome
                /\ runs'[r].pc \in {"animate", "done"}]_vars

C10_Witness ==
    \E r \in RunIds :
        /\ RawStatus(runs[r].result) = "completed"
        /\ runs[r].answered = maxAttempts
        /\ runs[r].nonterm = maxAttempts - 1
        /\ runs[r].aggregated = 1
        /\ resultDiv.kind = "report"

----------------------------------------------------------------------------
(* Properties of the submission *)

\* the submission was answered, and the answer was read, without a job id:
\* the fetch was rejected, or the response was not 2xx, or its body was no
\* JSON object with a non-empty data.id
SubmissionFailed(x) ==
    /\ x.response.given
    /\ x.pc \notin {"submitErrJson", "submitJson"}
    /\ \/ x.response.rejected
       \/ ~x.response.ok
       \/ ~x.submitResult.json
       \/ x.submitResult.isNull
       \/ ~x.submitResult.hasData
       \/ x.submitResult.id \in {"absent", ""}

\* C11: when the submission request fails, or its successful response
\* carries no job id (data.id missing or empty), the scan ends with an
\* error after exactly one submission request and no status query; a status
\* query is only ever issued after a 2xx submission response with a job id;
\* and no scan submits twice.
C11_NoPollWithoutJobId ==
    \A r \in RunIds :
        LET x == runs[r]
        IN  /\ x.submits <= 1
            /\ SubmissionFailed(x) =>
                   /\ x.pc = "done"
                   /\ x.submits = 1
                   /\ x.queries = 0
                   /\ x.errors = 1
                   /\ x.last = "error"
                   /\ Len(x.outcome) = 2
            /\ (x.response.given /\ x.response.ok /\ x.submitResult.json
                    /\ ~x.submitResult.isNull /\ x.pc # "submitJson"
                    /\ (~x.submitResult.hasData \/ x.submitResult.id \in {"absent", ""})) =>
                   x.outcome = Thrown(MsgNoId)
            /\ x.queries > 0 =>
                   /\ x.submits = 1
                   /\ x.response.ok
                   /\ x.submitResult.hasData
                   /\ x.submitResult.id = "analysis-id"

C11_Witness ==
    \E r \in RunIds :
        /\ runs[r].pc = "done"
        /\ runs[r].response.ok
        /\ runs[r].submitResult.hasData
        /\ runs[r].submitResult.id = ""
        /\ runs[r].submits = 1
        /\ runs[r].queries = 0
        /\ resultDiv.message = Thrown(MsgNoId)

\* makeRequest has thrown for a non-2xx response
NonOkThrown(x) ==
    x.response.given /\ ~x.response.rejected /\ ~x.response.ok /\ x.pc = "done"

\* C12 as stated: for every non-2xx response the thrown message is
\* body.error.message when the body is JSON that contains one, and the HTTP
\* status text of the response otherwise.
C12_FallbackIsStatusText ==
    \A r \in RunIds :
        LET x == runs[r]
            b == x.submitResult
        IN  NonOkThrown(x) =>
                x.outcome = Thrown(IF b.json /\ ~b.isNull /\ b.error = "object"
                                          /\ b.message # "absent"
                                   THEN b.message
                                   ELSE x.response.statusText)

\* C12, amended: for every non-2xx response the thrown message is
\* body.error.message when the body is a JSON object that contains a
\* non-empty one; it is the HTTP status text only when the body is not JSON
\* and the status text is not empty; for the JSON value null it is the
\* runtime's message of the failed property read; in every other case (JSON
\* without a non-empty error.message, or an empty status text) it is
\* 'Request failed!'.
C12_FallbackIsRequestFailed ==
    \A r \in RunIds :
        LET x == runs[r]
            b == x.submitResult
        IN  NonOkThrown(x) =>
                /\ x.errors = 1
                /\ x.queries = 0
                /\ x.outcome =
                       Thrown(CASE ~b.json /\ x.response.statusText # "" -> x.response.statusText
                                [] ~b.json /\ x.response.statusText = "" -> MsgRequestFailed
                                [] b.json /\ b.isNull -> MsgNullRead
                                [] b.json /\ ~b.isNull /\ b.error = "object"
                                       /\ b.message \notin {"absent", ""} -> b.message
                                [] OTHER -> MsgRequestFailed)

C12_Witness ==
    \E r \in RunIds :
        /\ NonOkThrown(runs[r])
        /\ runs[r].submitResult.json
        /\ runs[r].submitResult.error = "object"
        /\ runs[r].submitResult.message = ""
        /\ runs[r].response.statusText = "Bad Request"
        /\ resultDiv.message = Thrown(MsgRequestFailed)

----------------------------------------------------------------------------
(* The proxy: handler(req, res) of api/scan-url.js *)

Methods == {"GET", "POST", "DELETE"}

\* req.body: present = FALSE when the request has no body (req.body is
\* undefined or null); hasUrl: the body has a field url
NoReqBody == [present |-> FALSE, hasUrl |-> FALSE, url |-> <<>>]
ReqBodies ==
    {NoReqBody, [present |-> TRUE, hasUrl |-> FALSE, url |-> <<>>]}
    \cup {[present |-> TRUE, hasUrl |-> TRUE, url |-> u] : u \in Inputs}

MsgMethodNotAllowed == "Method not allowed"
MsgNoURL == "No URL provided"

\* the JSON body { error: text }
ErrorString ==
    [json |-> TRUE, isNull |-> FALSE, error |-> "string", message |-> "absent",
     hasData |-> FALSE, id |-> "absent"]

\* res.status(status).json(out)
Send(h, status, out, text) ==
    [h EXCEPT !.pc = "done", !.sent = @ + 1, !.status = status, !.out = out,
              !.errorText = text]

\* !url
NoUrl(body) == ~body.hasUrl \/ body.url = <<>>

\* the handler up to its first await: the method check, the destructuring
\* of req.body (which throws when there is no body), the url check and the
\* request to the provider
Receive(h, method, body) ==
    LET h1 == [h EXCEPT !.method = method, !.body = body]
    IN  IF method # "POST" THEN Send(h1, 405, ErrorString, MsgMethodNotAllowed)
        ELSE IF ~body.present THEN [h1 EXCEPT !.pc = "crashed", !.thrown = @ + 1]
        ELSE IF NoUrl(body) THEN Send(h1, 400, ErrorString, MsgNoURL)
        ELSE [h1 EXCEPT !.pc = "fetch", !.url = body.url, !.outbound = @ + 1]

\* a request arrives
HandlerRequest ==
    /\ handler.pc = "idle"
    /\ UNCHANGED <<runs, resultDiv, started, limit>>
    /\ \E method \in Methods, body \in ReqBodies :
         handler' = Receive(handler, method, body)

\* the fetch of the provider resolves or rejects; a rejection goes to the
\* catch clause
HandlerFetchResolve ==
    /\ handler.pc = "fetch"
    /\ UNCHANGED <<runs, resultDiv, started, limit>>
    /\ \E vtRes \in Responses :
         LET h == [handler EXCEPT !.vtRes = vtRes]
         IN  handler' = IF vtRes.rejected
                        THEN Send(h, 500, ErrorString, MsgFetchRejected)
                        ELSE [h EXCEPT !.pc = "json"]

\* `await vtRes.json()` resolves and the data is relayed with status 200, or
\* it rejects and the catch clause answers
HandlerJsonResolve ==
    /\ handler.pc = "json"
    /\ UNCHANGED <<runs, resultDiv, started, limit>>
    /\ \E data \in SubmitBodies :
         handler' = IF ~data.json
                    THEN Send(handler, 500, ErrorString, MsgNotJSON)
                    ELSE Send(handler, 200, data, "")

\* the handler alone, for every request
InitHandler == InitWith(0)

NextHandler ==
    \/ HandlerRequest
    \/ HandlerFetchResolve
    \/ HandlerJsonResolve

SpecHandler == InitHandler /\ [][NextHandler]_vars

----------------------------------------------------------------------------
(* Properties of the proxy *)

\* C13: on every failure path of the handler (method not POST, url missing,
\* exception while calling the provider) the response body has the shape
\* { error: { message: string } }, so that the client's error.error.message
\* lookup (ErrorMessageOf) yields the proxy's message.
C13_ErrorBodyShape ==
    (handler.sent > 0 /\ handler.status # 200) =>
        /\ handler.out.error = "object"
        /\ handler.out.message \notin {"absent", ""}
        /\ ErrorMessageOf(handler.out) = handler.errorText

\* C20: for every request the handler sends exactly one response and issues
\* at most one request to the provider; it issues none and answers 405 when
\* the method is not POST, and issues none and answers 400 when the url is
\* missing or empty, also when the request has no body at all.
C20_OneResponsePerRequest ==
    /\ handler.sent <= 1
    /\ handler.outbound <= 1
    /\ handler.pc \in {"done", "crashed"} =>
           /\ handler.sent = 1
           /\ handler.method # "POST" =>
                  (handler.outbound = 0 /\ handler.status = 405)
           /\ (handler.method = "POST"
                   /\ (~handler.body.present \/ ~handler.body.hasUrl
                           \/ handler.body.url = <<>>)) =>
                  (handler.outbound = 0 /\ handler.status = 400)

----------------------------------------------------------------------------
(* Properties of a whole scan *)

\* C14: a scan that does not end in a rendered report ends with exactly one
\* error message, which is the last update it makes to the result area: no
\* finished scan has the loading indicator as its last update, no scan
\* shows two errors or an error besides a report, and after its error a
\* scan updates nothing any more.
C14_ExactlyOneError ==
    /\ [](\A r \in RunIds :
            LET x == runs[r]
            IN  /\ x.errors <= 1
                /\ x.errors = 1 => (x.pc = "done" /\ x.last = "error" /\ x.outcome # ReportShown)
                /\ x.outcome = ReportShown => (x.errors = 0 /\ x.last = "report")
                /\ x.pc = "done" =>
                       /\ x.last \in {"error", "report"}
                       /\ x.outcome # NoOutcome
                /\ (x.pc = "done" /\ x.outcome # ReportShown) =>
                       /\ x.errors = 1
                       /\ resultDiv.run = r =>
                              (resultDiv.kind = "error" /\ resultDiv.message = x.outcome)
                       /\ (\A q \in RunIds \ {r} : runs[q].pc = "idle") => resultDiv.run = r)
    /\ [][\A r \in RunIds : runs[r].errors = 1 => runs'[r] = runs[r]]_vars

C14_Witness ==
    \E r \in RunIds :
        /\ runs[r].pc = "done"
        /\ runs[r].queries > 1
        /\ runs[r].aggregated = 1
        /\ runs[r].errors = 1
        /\ resultDiv.kind = "error"
        /\ resultDiv.message = <<MsgInvalidFormat>>

ExampleStats == [malicious |-> 3, suspicious |-> 2, harmless |-> 90, undetected |-> 5]

\* C15: in every rendered report each of the four displayed percentages is
\* the value nearest to value / total * 100 with one decimal (in tenths:
\* within half a tenth of 1000 * value / total), where total is the sum of
\* all the values of stats, the categories that are not displayed included,
\* and each is rounded on its own; {malicious: 3, suspicious: 2,
\* harmless: 90, undetected: 5} yields 3.0, 2.0, 90.0, 5.0.
C15_PercentOfTotal ==
    /\ resultDiv.kind = "report" =>
           LET st == resultDiv.stats
               total == st["malicious"] + st["suspicious"] + st["harmless"]
                            + st["undetected"] + st["timeout"]
           IN  /\ total > 0
               /\ \A k \in {"malicious", "suspicious", "harmless", "undetected"} :
                      LET p == resultDiv.percents[k]
                      IN  /\ p \in 0..1000
                          /\ 2 * (p * total - 1000 * st[k]) <= total
                          /\ 2 * (1000 * st[k] - p * total) <= total
    /\ percents(ExampleStats)
           = [malicious |-> 30, suspicious |-> 20, harmless |-> 900, undetected |-> 50]

C15_Witness ==
    /\ resultDiv.kind = "report"
    /\ resultDiv.stats["timeout"] = 1
    /\ resultDiv.stats["malicious"] = 1
    /\ resultDiv.stats["harmless"] = 1
    /\ resultDiv.stats["suspicious"] = 0
    /\ resultDiv.stats["undetected"] = 0
    /\ resultDiv.percents["malicious"] = 333
    /\ resultDiv.percents["suspicious"] = 0

\* C16: while a run polls, its interval stays within 2000..8000 and never
\* decreases; every suspension lasts min(1.5 x the interval before it, 8000)
\* ms; every suspension is followed by another status query, so there are
\* never more suspensions than queries minus one at the end: a run that
\* times out has made 20 queries and exactly 19 suspensions.
C16_IntervalAndSuspensions ==
    /\ [](\A r \in RunIds :
            LET x == runs[r]
            IN  x.queries > 0 =>
                    /\ x.interval \in initialInterval..maxInterval
                    /\ Len(x.delays) \in {x.queries - 1, x.queries}
                    /\ Len(x.delays) = x.queries => x.pc = "pollSleep"
                    /\ Len(x.delays) <= maxAttempts - 1
                    /\ x.outcome = Thrown(MsgTimeout) =>
                           (x.queries = maxAttempts /\ Len(x.delays) = maxAttempts - 1
                                /\ x.pc = "done" /\ ~x.timer))
    /\ [][\A r \in RunIds :
            LET x == runs[r]
                y == runs'[r]
            IN  /\ x.queries > 0 => y.interval >= x.interval
                /\ y.delays # x.delays =>
                       /\ Len(y.delays) = Len(x.delays) + 1
                       /\ SubSeq(y.delays, 1, Len(x.delays)) = x.delays
                       /\ LET d == y.delays[Len(y.delays)]
                          IN  /\ \/ 2 * d = 3 * x.interval /\ d <= 8000
                                 \/ d = 8000 /\ 3 * x.interval >= 16000
                              /\ y.interval = d
                       /\ y.pc = "pollSleep"
                /\ (x.pc = "pollSleep" /\ y.pc # "pollSleep") =>
                       (y.pc = "pollFetch" /\ y.queries = x.queries + 1)]_vars

C16_Witness ==
    \E r \in RunIds :
        /\ runs[r].outcome = Thrown(MsgTimeout)
        /\ Len(runs[r].delays) = maxAttempts - 1
        /\ runs[r].interval = maxInterval
        /\ runs[r].queries = maxAttempts

----------------------------------------------------------------------------
(* End to end: the submission of a scan is answered by the handler *)

\* response.statusText for the statuses the handler sends
StatusTextOf(status) ==
    CASE status = 200 -> "OK"
      [] status = 400 -> "Bad Request"
      [] status = 405 -> "Method Not Allowed"
      [] OTHER -> "Internal Server Error"

\* the responses the client's fetch can resolve with once the handler has
\* answered (the status text is empty over HTTP/2), or reject with at any
\* time; a handler that threw is answered for by the platform with a 500
ProxyResponses ==
    {[given |-> TRUE, rejected |-> TRUE, ok |-> FALSE, statusText |-> ""]}
    \cup (IF handler.pc = "done"
          THEN {[given |-> TRUE, rejected |-> FALSE, ok |-> handler.status = 200,
                 statusText |-> t] : t \in {"", StatusTextOf(handler.status)}}
          ELSE IF handler.pc = "crashed"
          THEN {[given |-> TRUE, rejected |-> FALSE, ok |-> FALSE, statusText |-> t] :
                    t \in {"", StatusTextOf(500)}}
          ELSE {})

\* the body of that response: what the handler sent, or the platform's
\* error page, which is not JSON
ProxyBody == IF handler.pc = "done" THEN handler.out ELSE NoSubmitResult

\* scanURL, whose makeRequest("scan-url", { method: "POST", body:
\* JSON.stringify({ url }) }) reaches the handler
ScanURLViaProxy(r) ==
    \E input \in Inputs :
        /\ ScanURLStep(r, input)
        /\ handler' = IF Validate(trim(input)) = "ok"
                      THEN Receive(handler, "POST",
                                   [present |-> TRUE, hasUrl |-> TRUE, url |-> trim(input)])
                      ELSE handler

SubmitFetchViaProxy(r) == \E response \in ProxyResponses : SubmitFetchStep(r, response)

SubmitErrJsonViaProxy(r) == SubmitErrJsonStep(r, ProxyBody)

SubmitJsonViaProxy(r) == SubmitJsonStep(r, ProxyBody)

NextEndToEnd ==
    \/ \E r \in RunIds :
           \/ ScanURLViaProxy(r)
           \/ SubmitFetchViaProxy(r)
           \/ SubmitErrJsonViaProxy(r)
           \/ SubmitJsonViaProxy(r)
           \/ SubmitDelayFires(r)
           \/ PollFetchResolve(r)
           \/ PollJsonResolve(r)
           \/ PollTimerFires(r)
           \/ AnimateFires(r)
    \/ HandlerFetchResolve
    \/ HandlerJsonResolve

SpecEndToEnd == Init /\ [][NextEndToEnd]_vars

\* the provider answered the handler's request with a non-2xx status and a
\* body { error: { message } }
ProviderRejected ==
    /\ handler.vtRes.given
    /\ ~handler.vtRes.rejected
    /\ ~handler.vtRes.ok
    /\ handler.pc = "done"
    /\ handler.out.error = "object"
    /\ handler.out.message = "provider message"

\* C17: end to end, when the provider rejects the submission with a non-2xx
\* status and an error body { error: { message } } and the scan has read the
\* proxy's answer, the error the scan displays carries the provider's
\* message.
C17_ProviderMessageShown ==
    \A r \in RunIds :
        (ProviderRejected /\ runs[r].pc = "done" /\ runs[r].response.given
             /\ ~runs[r].response.rejected) =>
            /\ runs[r].outcome = Thrown("provider message")
            /\ resultDiv.message = Thrown("provider message")

----------------------------------------------------------------------------
(* Termination: every request resolves or rejects, every timer fires *)

\* Which await a scan reaches next depends on the input only through the
\* outcome of its validation and on the stats of a completed analysis only
\* through their total being zero or not: one input of each kind and one
\* stats object of each kind stand for the rest.
InputKinds == {CHOOSE i \in Inputs : Validate(trim(i)) = v : v \in {"empty", "invalid", "ok"}}

StatsKinds == {ZeroStats, CHOOSE st \in StatsSet : ~NoTotal(Total(st))}

StatusBodyKinds == {b \in StatusBodies : b.stats \in StatsKinds}

ScanURLKind(r) ==
    /\ \E input \in InputKinds : ScanURLStep(r, input)
    /\ UNCHANGED handler

PollJsonKind(r) == \E result \in StatusBodyKinds : PollJsonStep(r, result)

NextFair ==
    \E r \in RunIds :
        \/ ScanURLKind(r)
        \/ SubmitFetchResolve(r)
        \/ SubmitErrJsonResolve(r)
        \/ SubmitJsonResolve(r)
        \/ SubmitDelayFires(r)
        \/ PollFetchResolve(r)
        \/ PollJsonKind(r)
        \/ PollTimerFires(r)
        \/ AnimateFires(r)

\* the promise of a fetch or of a body read settles, a timer set with
\* setTimeout fires: weak fairness on every step but the user's click
Fairness ==
    \A r \in RunIds :
        /\ WF_vars(SubmitFetchResolve(r))
        /\ WF_vars(SubmitErrJsonResolve(r))
        /\ WF_vars(SubmitJsonResolve(r))
        /\ WF_vars(SubmitDelayFires(r))
        /\ WF_vars(PollFetchResolve(r))
        /\ WF_vars(PollJsonKind(r))
        /\ WF_vars(PollTimerFires(r))
        /\ WF_vars(AnimateFires(r))

SpecFair == Init /\ [][NextFair]_vars /\ Fairness

\* the run displays its terminal outcome: the rendered report or an error
Terminal(r) == runs[r].outcome # NoOutcome

\* C18: when every request settles and every timer fires, every started
\* scan eventually displays a terminal outcome (report or error); it issues
\* at most one submission request and at most 20 status queries, and none
\* at all once the terminal outcome is displayed.
C18_ScanTerminates ==
    /\ [](\A r \in RunIds : runs[r].submits <= 1 /\ runs[r].queries <= maxAttempts)
    /\ [][\A r \in RunIds :
            Terminal(r) => /\ runs'[r].submits = runs[r].submits
                           /\ runs'[r].queries = runs[r].queries
                           /\ Terminal(r)']_vars
    /\ \A r \in RunIds : (runs[r].pc # "idle") ~> (Terminal(r) /\ runs[r].pc = "done")

C18_Witness ==
    \E r \in RunIds :
        /\ Terminal(r)
        /\ runs[r].pc = "done"
        /\ runs[r].submits = 1
        /\ runs[r].queries = maxAttempts
        /\ runs[r].outcome = ReportShown

----------------------------------------------------------------------------
(* Two scans: the button is clicked again while a scan is in flight *)

\* two clicks
InitTwo == InitWith(2)

\* The runs meet only in the element 'result'.  The answers of the status
\* endpoint are drawn from one of each course the loop can take: go round,
\* failed, completed with a report, and a body that is not JSON.
TwoBodies ==
    {StatusBody("queued"), StatusBody("failed"), NoBody,
     MkBody(TRUE, FALSE, TRUE, TRUE, TRUE, "completed", TRUE,
            CHOOSE st \in StatsSet : ~NoTotal(Total(st)))}

TwoReports == {x \in Responses : x.rejected \/ x.ok}

PollFetchTwo(r) == \E report \in TwoReports : PollFetchStep(r, report)

PollJsonTwo(r) == \E result \in TwoBodies : PollJsonStep(r, result)

NextTwo ==
    \E r \in RunIds :
        \/ ScanURLKind(r)
        \/ SubmitFetchResolve(r)
        \/ SubmitErrJsonResolve(r)
        \/ SubmitJsonResolve(r)
        \/ SubmitDelayFires(r)
        \/ PollFetchTwo(r)
        \/ PollJsonTwo(r)
        \/ PollTimerFires(r)
        \/ AnimateFires(r)

SpecTwo == InitTwo /\ [][NextTwo]_vars

\* the i-th delay of a run that polls alone
RECURSIVE Schedule(_)
Schedule(i) == IF i = 1 THEN NextInterval(initialInterval) ELSE NextInterval(Schedule(i - 1))

\* each run counts and sleeps as it would alone
RunsIndependent ==
    \A r \in RunIds :
        LET x == runs[r]
        IN  /\ x.queries <= maxAttempts
            /\ x.submits <= 1
            /\ x.errors <= 1
            /\ x.queries > 0 => Len(x.delays) \in {x.queries - 1, x.queries}
            /\ \A i \in 1..Len(x.delays) : x.delays[i] = Schedule(i)
            /\ x.outcome = Thrown(MsgTimeout) => x.queries = maxAttempts

\* both scans have finished and the second was started while the first was
\* in flight
BothFinished ==
    /\ started = 2
    /\ runs[2].concurrent
    /\ \A r \in {1, 2} : runs[r].pc = "done"

\* C19: two scans of which the second is started while the first is in
\* flight do not interfere: each run's queries, delays and outcome are those
\* of a run alone, and once both have finished the result area shows the
\* outcome of the scan started last, never something the earlier scan wrote.
C19_LastScanShown ==
    /\ RunsIndependent
    /\ BothFinished =>
           /\ resultDiv.run = 2
           /\ resultDiv.message = runs[2].outcome

====
